---- MODULE Spec2Model ----
(***************************************************************************)
(* Approval-gated deployment bot (teams-cicd-bot).                         *)
(*                                                                         *)
(* The model follows the asyncio program: every inbound message, every     *)
(* card interaction and every expiry timer is a task; a task runs without  *)
(* interruption up to its next `await` of real I/O (send_activity, a       *)
(* resolver or Jenkins call, the audit write, the expiry sleep), so one    *)
(* action of the model is one such uninterrupted segment.                  *)
(*                                                                         *)
(* A message text is a sequence of lexical units: words, runs of           *)
(* whitespace and the two tags of the mention markup.  Python's None is    *)
(* the string "None"; an error message is the tuple of its fragments and   *)
(* << >> when the field is None.                                           *)
(***************************************************************************)
EXTENDS Integers, Sequences, FiniteSets, TLC

\* ---------------------------------------------------------------- bounds
MaxTasks == 2        \* inbound activities (messages + card clicks) per run
MaxApprovals == 2    \* approvals created per run
MaxArgs == 4         \* words after the first one in a text handed to the parser
MaxReleases == 3     \* releases of the project in the release system
MaxDeployments == 3  \* deployments of the project in the release system
MaxCalls == 3        \* calls made on the audit logger alone

\* ------------------------------------------------------------- constants
None == "None"
NoError == << >>     \* ParsedCommand.error is None
NoId == 0            \* an approval id that create() never returned
MissingId == -1      \* a card payload without approval_id
HISTORY_LIMIT == 10  \* get_history(app=cmd.app, limit=10)

\* A set of environments that was widened without the configuration.
VALID_ENVS_with_staging == {"qa", "uat", "prod", "staging"}

VALID_ENVS == {"qa", "uat", "prod"}
VALID_ACTIONS == {"build", "deploy", "status", "rollback", "history", "help"}
APPROVAL_REQUIRED_ENVS == {"uat", "prod"}

\* The lexical units of a message text: the two tags of the mention markup,
\* a run of whitespace, and words without '<' and without whitespace.
OpenTag == "<at>"
CloseTag == "</at>"
Space == " "

Mention == <<OpenTag, "DeployBot", CloseTag>>

\* ---------------------------------------------------------------- parser
\* No case folding.
Lower_identity(tok) == tok

\* str.lower() on the units used in the model.
Lower(tok) ==
    CASE tok = "Deploy" -> "deploy"
      [] tok = "MyApp" -> "myapp"
      [] tok = "PROD" -> "prod"
      [] tok = "FOO" -> "foo"
      [] OTHER -> tok

LowerText(text) == [i \in 1..Len(text) |-> Lower(text[i])]

\* str.strip(): the text without its leading and trailing whitespace.
RECURSIVE LStrip(_)
LStrip(text) ==
    IF text # << >> /\ Head(text) = Space THEN LStrip(Tail(text)) ELSE text

Reverse(text) == [i \in 1..Len(text) |-> text[Len(text) + 1 - i]]

Strip(text) == Reverse(LStrip(Reverse(LStrip(text))))

\* The position of the first '<' of a text (the first tag), 0 without one.
FirstTag(text) ==
    LET tags == {i \in 1..Len(text) : text[i] \in {OpenTag, CloseTag}}
    IN  IF tags = {} THEN 0 ELSE CHOOSE i \in tags : \A j \in tags : i <= j

\* re.sub(r"<at>[^<]*</at>", "", text): one pass from the left; a match is
\* an opening tag, units without '<', and a closing tag.
RECURSIVE StripMentions(_)
StripMentions(text) ==
    IF text = << >> THEN << >>
    ELSE LET rest == Tail(text)
             k == FirstTag(rest)
         IN  IF Head(text) = OpenTag /\ k > 0 /\ rest[k] = CloseTag
             THEN StripMentions(SubSeq(rest, k + 1, Len(rest)))
             ELSE <<Head(text)>> \o StripMentions(rest)

\* str.split(): the maximal runs without whitespace; cur is the run so far.
RECURSIVE Split(_, _)
Split(text, cur) ==
    LET token == IF cur = "" THEN << >> ELSE <<cur>>
    IN  IF text = << >> THEN token
        ELSE IF Head(text) = Space THEN token \o Split(Tail(text), "")
        ELSE Split(Tail(text), cur \o Head(text))

ParsedCommand(action, app, branch, build_number, environment, raw, error) ==
    [action |-> action, app |-> app, branch |-> branch,
     build_number |-> build_number, environment |-> environment,
     raw |-> raw, error |-> error]

\* An error result that carries the app it read.
error_command_keeps_app(action, parts, raw, error) ==
    ParsedCommand(action, IF Len(parts) >= 2 THEN parts[2] ELSE None,
                  None, None, None, raw, error)

\* ParsedCommand(action=..., raw=raw, error=...)
error_command(action, parts, raw, error) ==
    ParsedCommand(action, None, None, None, None, raw, error)

parse_command(message) ==
    LET stripped == Strip(message)
        text == IF \E i \in 1..Len(stripped) : stripped[i] = OpenTag
                THEN Strip(StripMentions(stripped))
                ELSE stripped
        raw == text
        parts == Split(LowerText(text), "")
        n == Len(parts)
        action == parts[1]
        Err(a, e) == error_command(a, parts, raw, e)
    IN  IF n = 0 THEN ParsedCommand("help", None, None, None, None, raw, NoError)
        ELSE IF action \notin VALID_ACTIONS
             THEN Err("unknown", <<"Unknown command", action>>)
        ELSE IF action = "help"
             THEN ParsedCommand("help", None, None, None, None, raw, NoError)
        ELSE IF action = "build"
             THEN IF n < 3 THEN Err("build", <<"Usage: build <app> <branch>">>)
                  ELSE ParsedCommand("build", parts[2], parts[3], None, None, raw, NoError)
        ELSE IF action = "deploy"
             THEN IF n < 4 THEN Err("deploy", <<"Usage: deploy <app> <build#> <qa|uat|prod>">>)
                  ELSE IF parts[4] \notin VALID_ENVS
                       THEN Err("deploy", <<"Invalid environment", parts[4]>>)
                  ELSE ParsedCommand("deploy", parts[2], None, parts[3], parts[4], raw, NoError)
        ELSE IF action = "status"
             THEN IF n < 2 THEN Err("status", <<"Usage: status <app>">>)
                  ELSE ParsedCommand("status", parts[2], None, None, None, raw, NoError)
        ELSE IF action = "rollback"
             THEN IF n < 3 THEN Err("rollback", <<"Usage: rollback <app> <environment>">>)
                  ELSE IF parts[3] \notin VALID_ENVS
                       THEN Err("rollback", <<"Invalid environment", parts[3]>>)
                  ELSE ParsedCommand("rollback", parts[2], None, None, parts[3], raw, NoError)
        ELSE IF n < 2 THEN Err("history", <<"Usage: history <app>">>)
             ELSE ParsedCommand("history", parts[2], None, None, None, raw, NoError)

\* A text of words separated by one blank.
RECURSIVE Join(_)
Join(toks) ==
    IF Len(toks) <= 1 THEN toks ELSE <<Head(toks), Space>> \o Join(Tail(toks))

\* The message texts the operators send in the model.
Texts ==
    { Join(<<"build", "myapp", "main">>),
      Join(<<"build", "myapp">>),
      Join(<<"deploy", "myapp", "42", "qa">>),
      Join(<<"deploy", "myapp", "42", "staging">>),
      Join(<<"Deploy", "MyApp", "42", "PROD">>),
      Mention \o <<Space>> \o Join(<<"rollback", "myapp", "qa">>),
      Join(<<"rollback", "myapp", "staging">>),
      Join(<<"status", "myapp">>),
      Join(<<"history", "myapp">>),
      Join(<<"help">>) }

\* The texts handed to parse_command alone: a body of words, with or without
\* mention markup and blanks around it.
FirstTokens == {"build", "Deploy", "status", "rollback", "history", "help", "FOO"}
ArgTokens == {"MyApp", "42", "PROD", "staging"}
ArgSeqs == UNION {[1..n -> ArgTokens] : n \in 0..MaxArgs}
Bodies == {<< >>} \cup {Join(<<f>> \o a) : f \in FirstTokens, a \in ArgSeqs}
Prefixes ==
    { << >>, <<Space>>, Mention \o <<Space>>,
      <<OpenTag>> \o Mention \o <<CloseTag, Space>> }
Suffixes == { << >>, <<Space>> \o Mention }
ParserInputs == {p \o b \o s : p \in Prefixes, b \in Bodies, s \in Suffixes}

Requesters == {"alice"}
Approvers == {"bob"}

\* The card payloads {action, approval_id} that reach on_invoke_activity:
\* the two buttons of a card, for an id that was created or never was, and
\* the payloads the handler ignores.
CardPayloads(ids) ==
    ({"approve", "reject"} \X (ids \cup {NoId}))
        \cup {<<"other", NoId>>, <<"approve", MissingId>>}

\* ----------------------------------------------------------------- state
VARIABLES
    pending,   \* ApprovalManager._pending: approval id -> PendingApproval
    timers,    \* the _expire task of every approval created: id -> its position
    tasks,     \* the inbound activities handled so far, in order of arrival
    audit      \* rows of table audit_log, in order of insertion

vars == <<pending, timers, tasks, audit>>

\* An entry that does not keep is_rollback.
PendingApproval_never_rollback(id, app, build_number, environment, requested_by, turn_context, is_rollback) ==
    [id |-> id, app |-> app, build_number |-> build_number,
     environment |-> environment, requested_by |-> requested_by,
     turn_context |-> turn_context, is_rollback |-> FALSE]

PendingApproval(id, app, build_number, environment, requested_by, turn_context, is_rollback) ==
    [id |-> id, app |-> app, build_number |-> build_number,
     environment |-> environment, requested_by |-> requested_by,
     turn_context |-> turn_context, is_rollback |-> is_rollback]

NoApproval == PendingApproval(NoId, None, None, None, None, 0, FALSE)
NoCommand == ParsedCommand(None, None, None, None, None, << >>, NoError)

\* One thing a task did that is visible outside it: a message sent (sent
\* or failed), a collaborator called (with its result), an audit row written,
\* an exception that left the handler.
Event(ev, what, args, res) == [ev |-> ev, what |-> what, args |-> args, res |-> res]

\* The handler has no result of a collaborator (yet).
NoResult == [status |-> None, message |-> None]

Task(kind, pc, user, text, cmd) ==
    [kind |-> kind, pc |-> pc, user |-> user, text |-> text, cmd |-> cmd,
     aid |-> NoId, approved |-> FALSE, approval |-> NoApproval,
     created |-> NoId, result |-> NoResult, trace |-> << >>]

\* What a collaborator's call returns: {"status": ..., "message": ...}.  The
\* resolver catches its own ValueError (a project, an environment or a
\* release that is not found) and every other exception.
Result(status, message) == [status |-> status, message |-> message]
Triggered == Result("triggered", None)
NotFound == Result("error", "not found")
TransportError == Result("error", "API error")
Outcomes == {Triggered, NotFound, TransportError}
BuildOutcomes == {Triggered, TransportError}
StatusOutcomes == {"ok", "error"}

Init ==
    /\ pending = << >>
    /\ timers = << >>
    /\ tasks = << >>
    /\ audit = << >>

\* A pop that reads the entry and leaves it in the dict (get instead of pop).
PopRest_keeps(p, id) == p

\* A removal that empties the registry.
PopRest_clears(p, id) == << >>

\* dict.pop(approval_id, None): the entry (or None) and the dict without it.
PopEntry(p, id) == IF id \in DOMAIN p THEN p[id] ELSE NoApproval
PopRest(p, id) == [k \in DOMAIN p \ {id} |-> p[k]]

\* uuid.uuid4(): an id no approval has had.
NextId == Cardinality(DOMAIN timers) + 1

\* A create that does not start the _expire task.
create_without_timer(app, build_number, environment, requested_by, turn_context, is_rollback) ==
    /\ NextId <= MaxApprovals
    /\ pending' = pending @@ (NextId :> PendingApproval(NextId, app, build_number,
                                  environment, requested_by, turn_context, is_rollback))
    /\ timers' = timers

\* ApprovalManager.create: insert the entry, start its _expire task.
create(app, build_number, environment, requested_by, turn_context, is_rollback) ==
    /\ NextId <= MaxApprovals
    /\ pending' = pending @@ (NextId :> PendingApproval(NextId, app, build_number,
                                  environment, requested_by, turn_context, is_rollback))
    /\ timers' = timers @@ (NextId :> [pc |-> "sleeping", approval |-> NoApproval,
                                      trace |-> << >>])

\* A log that keeps one row per ledger: UPDATE instead of INSERT.
log_replaces(user, action, app, details, result) ==
    <<[id |-> 1, timestamp |-> 1, user |-> user, action |-> action,
       app |-> app, details |-> details, result |-> result]>>

\* The INSERT of AuditLogger.log: one row more; id is the AUTOINCREMENT key.
insert(timestamp, user, action, app, details, result) ==
    Append(audit, [id |-> Len(audit) + 1, timestamp |-> timestamp,
                   user |-> user, action |-> action,
                   app |-> app, details |-> details, result |-> result])

\* AuditLogger.log within one step of a handler: the clock is read and the
\* row is written with no other write in between.
log(user, action, app, details, result) ==
    insert(Len(audit) + 1, user, action, app, details, result)

\* ------------------------------------------------------------- dispatch
\* What a handler does before its first await of I/O: the label it goes on
\* from, and whether it calls approvals.create (which has no await inside).
Entry(pc, gate, build, is_rollback) ==
    [pc |-> pc, gate |-> gate, build |-> build, is_rollback |-> is_rollback]

handle_deploy_entry(cmd) ==
    IF cmd.environment \notin APPROVAL_REQUIRED_ENVS
    THEN Entry("deploy_card", FALSE, None, FALSE)
    ELSE Entry("approval_card", TRUE, cmd.build_number, FALSE)

\* A rollback gated like a deploy: only for the approval-required
\* environments.
handle_rollback_entry_like_deploy(cmd) ==
    IF cmd.environment \notin APPROVAL_REQUIRED_ENVS
    THEN Entry("deploy_card", FALSE, None, FALSE)
    ELSE Entry("approval_card", TRUE, "previous", TRUE)

handle_rollback_entry(cmd) == Entry("approval_card", TRUE, "previous", TRUE)

\* A dispatch that does not look at cmd.error first.
Dispatch_ignores_error(cmd) ==
    CASE cmd.action = "help" -> Entry("send_help", FALSE, None, FALSE)
      [] cmd.action = "build" -> Entry("build_card", FALSE, None, FALSE)
      [] cmd.action = "deploy" -> Entry("deploy_card", FALSE, None, FALSE)
      [] cmd.action = "status" -> Entry("status_call", FALSE, None, FALSE)
      [] cmd.action = "rollback" -> Entry("approval_card", TRUE, "previous", TRUE)
      [] cmd.action = "history" -> Entry("history_query", FALSE, None, FALSE)
      [] OTHER -> Entry("send_unknown", FALSE, None, FALSE)

Dispatch(cmd) ==
    IF cmd.error # NoError THEN Entry("send_error", FALSE, None, FALSE)
    ELSE CASE cmd.action = "help" -> Entry("send_help", FALSE, None, FALSE)
           [] cmd.action = "build" -> Entry("build_card", FALSE, None, FALSE)
           [] cmd.action = "deploy" -> handle_deploy_entry(cmd)
           [] cmd.action = "status" -> Entry("status_call", FALSE, None, FALSE)
           [] cmd.action = "rollback" -> handle_rollback_entry(cmd)
           [] cmd.action = "history" -> Entry("history_query", FALSE, None, FALSE)
           [] OTHER -> Entry("send_unknown", FALSE, None, FALSE)

\* DeployBot.on_message_activity up to the first await of I/O.
on_message_activity(text, user) ==
    /\ Len(tasks) < MaxTasks
    /\ LET cmd == parse_command(text)
           t == Len(tasks) + 1
           e == Dispatch(cmd)
           task == Task("message", e.pc, user, text, cmd)
       IN  IF e.gate
           THEN /\ create(cmd.app, e.build, cmd.environment, user, t, e.is_rollback)
                /\ tasks' = Append(tasks, [task EXCEPT !.created = NextId])
           ELSE /\ tasks' = Append(tasks, task)
                /\ UNCHANGED <<pending, timers>>
    /\ UNCHANGED audit

\* The rest of a handler: the events it adds, how it ends, its last result.
Finish(t, events, pc, result) ==
    tasks' = [tasks EXCEPT ![t].trace = @ \o events, ![t].pc = pc, ![t].result = result]

\* await turn_context.send_activity(...): sent, or the send raises and the
\* exception leaves the handler.
Sent(what, args, ok) == Event("send", what, args, IF ok THEN "sent" ELSE "failed")
Raised(what) == Event("raise", what, << >>, "failed")
End(ok) == IF ok THEN "done" ELSE "raised"

\* error card, help card, "Unknown command" card
reply_card(t) ==
    /\ tasks[t].pc \in {"send_error", "send_help", "send_unknown"}
    /\ \E ok \in BOOLEAN :
         Finish(t, <<Sent(tasks[t].pc, tasks[t].cmd.error, ok)>>, End(ok), NoResult)
    /\ UNCHANGED <<pending, timers, audit>>

\* DeployBot._handle_build: card, trigger_build (which catches every
\* exception), audit.log
handle_build(t) ==
    LET cmd == tasks[t].cmd IN
    /\ tasks[t].pc = "build_card"
    /\ \E sent \in BOOLEAN, r \in BuildOutcomes, logged \in BOOLEAN :
         LET card == Sent("build_triggered_card", <<cmd.app, cmd.branch>>, sent)
             call == Event("call", "trigger_build", <<cmd.app, cmd.branch>>, r)
         IN  IF ~sent
             THEN Finish(t, <<card>>, "raised", NoResult) /\ UNCHANGED audit
             ELSE IF ~logged
             THEN Finish(t, <<card, call, Raised("audit.log")>>, "raised", r)
                  /\ UNCHANGED audit
             ELSE /\ Finish(t, <<card, call, Event("audit", "build", <<cmd.app>>, r)>>,
                            "done", r)
                  /\ audit' = log(tasks[t].user, "build", cmd.app,
                                  {<<"branch", cmd.branch>>}, r)
    /\ UNCHANGED <<pending, timers>>

\* DeployBot._handle_deploy after its entry: either the direct deployment
\* (card, octopus.deploy, audit.log) or the approval request card
handle_deploy(t) ==
    LET cmd == tasks[t].cmd
        args == <<cmd.app, cmd.build_number, cmd.environment>>
    IN
    /\ cmd.action = "deploy"
    /\ \/ /\ tasks[t].pc = "deploy_card"
          /\ \E sent \in BOOLEAN, r \in Outcomes, logged \in BOOLEAN :
               LET card == Sent("deploy_triggered_card", args, sent)
                   call == Event("call", "deploy", args, r)
               IN  IF ~sent
                   THEN Finish(t, <<card>>, "raised", NoResult) /\ UNCHANGED audit
                   ELSE IF ~logged
                   THEN Finish(t, <<card, call, Raised("audit.log")>>, "raised", r)
                        /\ UNCHANGED audit
                   ELSE /\ Finish(t, <<card, call, Event("audit", "deploy", <<cmd.app>>, r)>>,
                                  "done", r)
                        /\ audit' = log(tasks[t].user, "deploy", cmd.app,
                                        {<<"build", cmd.build_number>>,
                                         <<"env", cmd.environment>>}, r)
       \/ /\ tasks[t].pc = "approval_card"
          /\ \E ok \in BOOLEAN :
               Finish(t, <<Sent("approval_request_card", args, ok)>>, End(ok), NoResult)
          /\ UNCHANGED audit
    /\ UNCHANGED <<pending, timers>>

\* DeployBot._handle_rollback after its entry: the approval request card
handle_rollback(t) ==
    LET cmd == tasks[t].cmd IN
    /\ cmd.action = "rollback"
    /\ tasks[t].pc = "approval_card"
    /\ \E ok \in BOOLEAN :
         Finish(t, <<Sent("approval_request_card",
                          <<cmd.app, "previous", cmd.environment>>, ok)>>, End(ok), NoResult)
    /\ UNCHANGED <<pending, timers, audit>>

\* A status handler that records the query in the audit ledger.
handle_status_audited(t) ==
    LET cmd == tasks[t].cmd IN
    /\ tasks[t].pc = "status_call"
    /\ \E r \in StatusOutcomes, ok \in BOOLEAN :
         Finish(t, <<Event("call", "get_status", <<cmd.app>>, r),
                     Event("audit", "status", <<cmd.app>>, r),
                     Sent("status_card", <<cmd.app>>, ok)>>, End(ok), Result(r, None))
    /\ audit' = log(tasks[t].user, "status", cmd.app, {}, Result("ok", None))
    /\ UNCHANGED <<pending, timers>>

\* DeployBot._handle_status: get_status (which catches every exception), then
\* the card; status_card reads every value of the data as a deployment, and
\* raises AttributeError on the string of {"error": str(e)}
handle_status(t) ==
    LET cmd == tasks[t].cmd IN
    /\ tasks[t].pc = "status_call"
    /\ \E r \in StatusOutcomes, ok \in BOOLEAN :
         IF r = "error"
         THEN Finish(t, <<Event("call", "get_status", <<cmd.app>>, r),
                         Raised("AttributeError")>>, "raised", Result(r, None))
         ELSE Finish(t, <<Event("call", "get_status", <<cmd.app>>, r),
                          Sent("status_card", <<cmd.app>>, ok)>>, End(ok), Result(r, None))
    /\ UNCHANGED <<pending, timers, audit>>

\* AuditLogger.get_history: WHERE app = ? ORDER BY id DESC LIMIT ?, each row
\* reduced to user, action and the status of its result.
\* res.get("status", "unknown")
StatusOf(result) ==
    IF "status" \in DOMAIN result THEN result.status ELSE "unknown"

\* AuditLogger.get_history: WHERE app = ? ORDER BY id DESC LIMIT ?
get_history(app, limit) ==
    LET mine == SelectSeq(audit, LAMBDA r : r.app = app)
        n == Len(mine)
        k == IF limit < n THEN limit ELSE n
    IN  [i \in 1..k |-> [timestamp |-> mine[n + 1 - i].timestamp,
                         user |-> mine[n + 1 - i].user,
                         action |-> mine[n + 1 - i].action,
                         result |-> StatusOf(mine[n + 1 - i].result)]]

\* DeployBot._handle_history: the query (which may raise), then the text
handle_history(t) ==
    LET cmd == tasks[t].cmd IN
    /\ tasks[t].pc = "history_query"
    /\ \E read \in BOOLEAN, ok \in BOOLEAN :
         IF ~read
         THEN Finish(t, <<Raised("audit.get_history")>>, "raised", NoResult)
         ELSE Finish(t, <<Event("query", "get_history", <<cmd.app>>,
                                get_history(cmd.app, HISTORY_LIMIT)),
                          Sent("history_text", <<cmd.app>>, ok)>>, End(ok), NoResult)
    /\ UNCHANGED <<pending, timers, audit>>

\* ------------------------------------------------------------ approvals
\* The modules of the repository that an import statement can find.
RepositoryModules ==
    {"config.settings", "bot.cards", "bot.command_parser", "bot.deploy_bot",
     "approval.manager", "audit.logger", "jenkins_client.client",
     "octopus_client.client"}

\* from octopus.client import OctopusClient; from audit.logger import AuditLogger
handle_response_imports == {"octopus.client", "audit.logger"}

\* handle_response whose reject branch does not return: a rejected entry
\* goes on to the approved path.
handle_response_entry_no_return(p, approval_id, approved) ==
    LET approval == PopEntry(p, approval_id)
    IN  [approval |-> approval,
         rest |-> PopRest(p, approval_id),
         pc |-> IF approval = NoApproval THEN "send_handled" ELSE "send_accepted"]

\* ApprovalManager.handle_response up to its first await: the pop and the
\* branch taken on its result.
handle_response_entry(p, approval_id, approved) ==
    LET approval == PopEntry(p, approval_id)
    IN  [approval |-> approval,
         rest |-> PopRest(p, approval_id),
         pc |-> IF approval = NoApproval THEN "send_handled"
                ELSE IF ~approved THEN "send_rejected"
                ELSE "send_accepted"]

\* DeployBot.on_invoke_activity up to the first await of I/O.
on_invoke_activity(action, approval_id, approver) ==
    /\ Len(tasks) < MaxTasks
    /\ LET approved == (action = "approve")
           task == [Task("invoke", "done", approver, << >>, NoCommand)
                       EXCEPT !.aid = approval_id, !.approved = approved]
           e == handle_response_entry(pending, approval_id, approved)
       IN  IF action \in {"approve", "reject"} /\ approval_id # MissingId
           THEN /\ pending' = e.rest
                /\ tasks' = Append(tasks, [task EXCEPT !.pc = e.pc,
                                                       !.approval = e.approval])
           ELSE /\ tasks' = Append(tasks, task)
                /\ UNCHANGED pending
    /\ UNCHANGED <<timers, audit>>

\* ApprovalManager.handle_response after the pop: the notification of the
\* branch taken and, when approved, the local imports, the resolver call,
\* the audit row and the outcome notification.
handle_response(t) ==
    LET a == tasks[t].approval
        approver == tasks[t].user
        action == IF a.is_rollback THEN "rollback" ELSE "deploy"
        args == IF a.is_rollback THEN <<a.app, a.environment>>
                ELSE <<a.app, a.build_number, a.environment>>
        shown == <<a.app, a.build_number, a.environment>>
    IN
    \/ /\ tasks[t].pc = "send_handled"
       /\ \E ok \in BOOLEAN :
            Finish(t, <<Sent("already_handled", << >>, ok)>>, End(ok), NoResult)
       /\ UNCHANGED <<pending, timers, audit>>
    \/ /\ tasks[t].pc = "send_rejected"
       /\ \E ok \in BOOLEAN :
            Finish(t, <<Sent("rejected", shown, ok)>>, End(ok), NoResult)
       /\ UNCHANGED <<pending, timers, audit>>
    \/ /\ tasks[t].pc = "send_accepted"
       /\ \E unsent \in BOOLEAN, r \in Outcomes, logged \in BOOLEAN, told \in BOOLEAN :
            LET sent == ~unsent
                accepted == Sent("accepted", shown, sent)
                call == Event("call", action, args, r)
                row == Event("audit", action \o "_approved", <<a.app>>, r)
                outcome == Sent(IF r.status = "triggered" THEN "deployment_triggered"
                                ELSE "deployment_failed", << >>, told)
            IN  IF ~sent
                THEN Finish(t, <<accepted>>, "raised", NoResult) /\ UNCHANGED audit
                ELSE IF ~(handle_response_imports \subseteq RepositoryModules)
                THEN Finish(t, <<accepted, Raised("ModuleNotFoundError")>>, "raised", NoResult)
                     /\ UNCHANGED audit
                ELSE IF ~logged
                THEN Finish(t, <<accepted, call, Raised("audit.log")>>, "raised", r)
                     /\ UNCHANGED audit
                ELSE /\ Finish(t, <<accepted, call, row, outcome>>, End(told), r)
                     /\ audit' = log(approver, action \o "_approved", a.app,
                                     {<<"env", a.environment>>, <<"build", a.build_number>>,
                                      <<"approved_by", approver>>}, r)
       /\ UNCHANGED <<pending, timers>>

\* _expire without its try/except: a failed send ends the timer task with
\* the exception.
expire_after_send_uncaught(ok) == IF ok THEN "done" ELSE "raised"

\* try: await approval.turn_context.send_activity(...) except Exception: pass
\* -- how the _expire task ends after the send.
expire_after_send(ok) == "done"

\* ApprovalManager._expire: the sleep ends (at expires_at or later) and the
\* pop follows at once; the notification is a second await, and its failure
\* is caught.
expire(id) ==
    \/ /\ timers[id].pc \in {"sleeping", "overdue"}
       /\ LET approval == PopEntry(pending, id)
          IN  /\ pending' = PopRest(pending, id)
              /\ timers' = [timers EXCEPT
                     ![id].pc = IF approval # NoApproval THEN "notifying" ELSE "done",
                     ![id].approval = approval]
       /\ UNCHANGED <<tasks, audit>>
    \/ /\ timers[id].pc = "notifying"
       /\ \E ok \in BOOLEAN :
            timers' = [timers EXCEPT
                ![id].trace = Append(@, Event("send", "expired",
                                  <<timers[id].approval.app, timers[id].approval.environment,
                                    timers[id].approval.turn_context>>,
                                  IF ok THEN "sent" ELSE "failed")),
                ![id].pc = expire_after_send(ok)]
       /\ UNCHANGED <<pending, tasks, audit>>

Next ==
    \/ \E text \in Texts, user \in Requesters : on_message_activity(text, user)
    \/ \E p \in CardPayloads(DOMAIN timers), approver \in Approvers :
            on_invoke_activity(p[1], p[2], approver)
    \/ \E t \in 1..Len(tasks) : reply_card(t)
    \/ \E t \in 1..Len(tasks) : handle_build(t)
    \/ \E t \in 1..Len(tasks) : handle_deploy(t)
    \/ \E t \in 1..Len(tasks) : handle_status(t)
    \/ \E t \in 1..Len(tasks) : handle_rollback(t)
    \/ \E t \in 1..Len(tasks) : handle_history(t)
    \/ \E t \in 1..Len(tasks) : handle_response(t)
    \/ \E id \in DOMAIN timers : expire(id)

Spec == Init /\ [][Next]_vars

\* The event loop runs every task it was given: the _expire task that create
\* started with asyncio.create_task is resumed when its sleep is over, and
\* again when its send has completed or failed.
ExpirySpec ==
    Init /\ [][Next]_vars
         /\ \A id \in 1..MaxApprovals : WF_vars(id \in DOMAIN timers /\ expire(id))

\* ------------------------------------------- the responses to one request
\* One request waits for its approval; the approvers' responses and the
\* expiry timer follow.
Responders == {"bob", "carol"}

ResponseInit ==
    /\ \E is_rollback \in BOOLEAN :
         pending = (1 :> PendingApproval(1, "myapp",
                                         IF is_rollback THEN "previous" ELSE "42",
                                         "prod", "alice", 0, is_rollback))
    /\ timers = (1 :> [pc |-> "sleeping", approval |-> NoApproval, trace |-> << >>])
    /\ tasks = << >>
    /\ audit = << >>

ResponseNext ==
    \/ \E p \in CardPayloads(DOMAIN timers), approver \in Responders :
            on_invoke_activity(p[1], p[2], approver)
    \/ \E t \in 1..Len(tasks) : handle_response(t)
    \/ \E id \in DOMAIN timers : expire(id)

ResponseSpec == ResponseInit /\ [][ResponseNext]_vars

\* ------------------------------------------- the responses and the clock
\* The clock reaches approval.expires_at (created_at + T) while the _expire
\* task, whose sleep of T began after created_at was read, has not been
\* resumed yet.
deadline(id) ==
    /\ timers[id].pc = "sleeping"
    /\ timers' = [timers EXCEPT ![id].pc = "overdue"]
    /\ UNCHANGED <<pending, tasks, audit>>

DeadlineNext ==
    \/ \E p \in CardPayloads(DOMAIN timers), approver \in Responders :
            on_invoke_activity(p[1], p[2], approver)
    \/ \E t \in 1..Len(tasks) : handle_response(t)
    \/ \E id \in DOMAIN timers : deadline(id)
    \/ \E id \in DOMAIN timers : expire(id)

DeadlineSpec == ResponseInit /\ [][DeadlineNext]_vars

\* --------------------------------------------------- the resolver alone
\* OctopusClient against one release system.  A call is a task of its own:
\* it holds no state between calls, and every HTTP request is one step.  A
\* version and a build number are strings of characters.
Versions == { <<"4", "2">>, <<"1", ".", "4", "2", "0">>, <<"7">> }
Builds == { <<"4", "2">>, <<"9">> }

\* The releases of the project as /projects/{id}/releases returns them, the
\* most recent first.
Releases(versions) ==
    [i \in 1..Len(versions) |-> [Id |-> <<"Releases", i>>, Version |-> versions[i]]]

ReleaseLists == {Releases(v) : v \in UNION {[1..n -> Versions] : n \in 0..MaxReleases}}

\* The deployments of the project as /deployments returns them; one of them
\* may come without EnvironmentId.
Deployments(envs) ==
    [i \in 1..Len(envs) |-> [EnvironmentId |-> envs[i], ReleaseId |-> <<"Releases", i>>,
                             State |-> "Success", Created |-> i]]

DeploymentLists ==
    {Deployments(e) : e \in UNION {[1..n -> {"Environments-1", "Environments-2", None}]
                                      : n \in 0..MaxDeployments}}

\* A release system: its projects and environments by name, the releases
\* and deployments of the project, and the request of the call that fails
\* in transport (0: none).
Servers(releases, deployments, fails) ==
    [projects : {{}, {"myapp"}},
     environments : {{}, {"QA"}, {"QA", "Production"}},
     releases : releases,
     deployments : deployments,
     fails : fails]

\* An id, a version or a build number the call does not have (yet).
Unresolved == << >>

ResolverCall(op, app, build_number, environment, server) ==
    [kind |-> op, pc |-> "project", app |-> app, build_number |-> build_number,
     environment |-> environment, server |-> server,
     project_id |-> Unresolved, environment_id |-> Unresolved,
     release_id |-> Unresolved, version |-> Unresolved,
     trace |-> << >>, result |-> Unresolved]

ResolverCalls ==
    {ResolverCall("deploy", "myapp", b, e, s) :
        b \in Builds, e \in {"qa", "prod"}, s \in Servers(ReleaseLists, {<< >>}, 0..4)}
    \cup {ResolverCall("rollback", "myapp", Unresolved, e, s) :
        e \in {"qa", "prod"}, s \in Servers(ReleaseLists, {<< >>}, 0..4)}
    \cup {ResolverCall("get_status", "myapp", Unresolved, None, s) :
        s \in Servers({<< >>}, DeploymentLists, 0..2)}

ResolverInit ==
    /\ pending = << >>
    /\ timers = << >>
    /\ audit = << >>
    /\ \E call \in ResolverCalls : tasks = <<call>>

\* _get and _post: the request raises (a transport error, an HTTP error
\* status) or returns the response.
Raises(c) == c.server.fails = Len(c.trace) + 1

Response(request, outcome, value) ==
    [request |-> request, outcome |-> outcome, value |-> value]

ENV_NAME_MAP(environment) ==
    CASE environment = "qa" -> "QA"
      [] environment = "uat" -> "UAT"
      [] environment = "prod" -> "Production"
      [] OTHER -> environment

\* _get_project_id: ValueError when Items is empty
get_project_id(c) ==
    LET request == <<"GET", "projects", c.app>>
    IN  IF Raises(c) THEN Response(request, "raised", <<"transport">>)
        ELSE IF c.app \notin c.server.projects
        THEN Response(request, "empty", <<"No Octopus project found for app", c.app>>)
        ELSE Response(request, "ok", <<"Projects", c.app>>)

\* _get_environment_id: ValueError when Items is empty
get_environment_id(c) ==
    LET env_name == ENV_NAME_MAP(c.environment)
        request == <<"GET", "environments", env_name>>
    IN  IF Raises(c) THEN Response(request, "raised", <<"transport">>)
        ELSE IF env_name \notin c.server.environments
        THEN Response(request, "empty",
                      <<"No Octopus environment found for", c.environment, env_name>>)
        ELSE Response(request, "ok", <<"Environments", env_name>>)

\* str(build_number) in release.get("Version", "")
Contains(version, build_number) ==
    \E i \in 1..(Len(version) + 1) :
        /\ i + Len(build_number) - 1 <= Len(version)
        /\ SubSeq(version, i, i + Len(build_number) - 1) = build_number

\* A search that keeps the last match.
match_last(items, build_number) ==
    LET hits == {i \in 1..Len(items) : Contains(items[i].Version, build_number)}
    IN  IF hits = {} THEN 0 ELSE CHOOSE i \in hits : \A j \in hits : j <= i

\* for release in Items: return at the first match (0: the loop ends)
match(items, build_number) ==
    LET hits == {i \in 1..Len(items) : Contains(items[i].Version, build_number)}
    IN  IF hits = {} THEN 0 ELSE CHOOSE i \in hits : \A j \in hits : i <= j

\* _get_release_id: ValueError when no release matches
get_release_id(c) ==
    LET request == <<"GET", "releases", c.project_id, "take=100">>
        items == c.server.releases
        k == match(items, c.build_number)
    IN  IF Raises(c) THEN Response(request, "raised", <<"transport">>)
        ELSE IF k = 0
        THEN Response(request, "empty",
                      <<"No Octopus release found containing build number", c.build_number>>)
        ELSE Response(request, "ok", items[k].Id)

\* self._post("/deployments", payload)
post_deployment(c) ==
    LET request == <<"POST", "deployments",
                     [ReleaseId |-> c.release_id, EnvironmentId |-> c.environment_id]>>
    IN  IF Raises(c) THEN Response(request, "raised", <<"transport">>)
        ELSE Response(request, "ok", <<"Deployments", 1>>)

\* The except clauses of the three operations.
Caught(op, r) ==
    CASE op = "get_status" -> [error |-> r.value]
      [] op = "deploy" ->
            IF r.outcome = "empty" THEN Result("error", r.value)
            ELSE Result("error", <<"Octopus API error">> \o r.value)
      [] OTHER ->
            IF r.outcome = "empty" THEN Result("error", r.value)
            ELSE Result("error", <<"Rollback error">> \o r.value)

Record(r) == [request |-> r.request, outcome |-> r.outcome]

\* A return that does not end the call.
Return_goes_on(t, r, result) ==
    tasks' = [tasks EXCEPT ![t].trace = Append(@, Record(r)), ![t].result = result]

\* The step of call t that made request r: the call returns result.
Return(t, r, result) ==
    tasks' = [tasks EXCEPT ![t].trace = Append(@, Record(r)),
                           ![t].pc = "done", ![t].result = result]

\* the two lookups that deploy and rollback start with
resolve(t, op, then) ==
    LET c == tasks[t] IN
    \/ /\ c.pc = "project"
       /\ LET r == get_project_id(c)
          IN  IF r.outcome # "ok" THEN Return(t, r, Caught(op, r))
              ELSE tasks' = [tasks EXCEPT ![t].trace = Append(@, Record(r)),
                                          ![t].project_id = r.value,
                                          ![t].pc = "environment"]
    \/ /\ c.pc = "environment"
       /\ LET r == get_environment_id(c)
          IN  IF r.outcome # "ok" THEN Return(t, r, Caught(op, r))
              ELSE tasks' = [tasks EXCEPT ![t].trace = Append(@, Record(r)),
                                          ![t].environment_id = r.value,
                                          ![t].pc = then]

\* OctopusClient.deploy, one request at a step
deploy(t) ==
    LET c == tasks[t] IN
    /\ c.kind = "deploy"
    /\ \/ resolve(t, "deploy", "release")
       \/ /\ c.pc = "release"
          /\ LET r == get_release_id(c)
             IN  IF r.outcome # "ok" THEN Return(t, r, Caught("deploy", r))
                 ELSE tasks' = [tasks EXCEPT ![t].trace = Append(@, Record(r)),
                                             ![t].release_id = r.value,
                                             ![t].pc = "post"]
       \/ /\ c.pc = "post"
          /\ LET r == post_deployment(c)
             IN  IF r.outcome # "ok" THEN Return(t, r, Caught("deploy", r))
                 ELSE Return(t, r, [status |-> "triggered", deployment_id |-> r.value,
                                    url |-> <<"app#", "deployments", r.value>>])
    /\ UNCHANGED <<pending, timers, audit>>

\* A rollback that redeploys the latest release.
previous_release_latest(items) == items[1]

\* previous_release = items[1]  # [0] = latest, [1] = previous
previous_release(items) == items[2]

\* OctopusClient.rollback, one request at a step
rollback(t) ==
    LET c == tasks[t] IN
    /\ c.kind = "rollback"
    /\ \/ resolve(t, "rollback", "releases")
       \/ /\ c.pc = "releases"
          /\ LET request == <<"GET", "releases", c.project_id, "take=2">>
                 items == SubSeq(c.server.releases, 1,
                                 IF Len(c.server.releases) < 2
                                 THEN Len(c.server.releases) ELSE 2)
             IN  IF Raises(c)
                 THEN LET r == Response(request, "raised", <<"transport">>)
                      IN  Return(t, r, Caught("rollback", r))
                 ELSE IF Len(items) < 2
                 THEN Return(t, Response(request, "ok", items),
                             Result("error", <<"No previous release found to roll back to.">>))
                 ELSE tasks' = [tasks EXCEPT
                         ![t].trace = Append(@, Record(Response(request, "ok", items))),
                         ![t].release_id = previous_release(items).Id,
                         ![t].version = previous_release(items).Version,
                         ![t].pc = "post"]
       \/ /\ c.pc = "post"
          /\ LET r == post_deployment(c)
             IN  IF r.outcome # "ok" THEN Return(t, r, Caught("rollback", r))
                 ELSE Return(t, r, [status |-> "triggered", rollback_to |-> c.version,
                                    deployment_id |-> r.value])
    /\ UNCHANGED <<pending, timers, audit>>

\* d.get("EnvironmentId", "unknown")
EnvironmentOf(d) == IF d.EnvironmentId = None THEN "unknown" ELSE d.EnvironmentId

Summary(d) == [release |-> d.ReleaseId, state |-> d.State, created |-> d.Created]

\* A summary in which a later deployment replaces an earlier one.
RECURSIVE latest_per_environment_overwrites(_, _)
latest_per_environment_overwrites(items, env_status) ==
    IF items = << >> THEN env_status
    ELSE latest_per_environment_overwrites(Tail(items),
            (EnvironmentOf(Head(items)) :> Summary(Head(items))) @@ env_status)

\* for d in Items: if env_name not in env_status: env_status[env_name] = ...
RECURSIVE latest_per_environment(_, _)
latest_per_environment(items, env_status) ==
    IF items = << >> THEN env_status
    ELSE latest_per_environment(Tail(items),
            IF EnvironmentOf(Head(items)) \in DOMAIN env_status
            THEN env_status
            ELSE env_status @@ (EnvironmentOf(Head(items)) :> Summary(Head(items))))

\* OctopusClient.get_status, one request at a step
get_status(t) ==
    LET c == tasks[t] IN
    /\ c.kind = "get_status"
    /\ \/ /\ c.pc = "project"
          /\ LET r == get_project_id(c)
             IN  IF r.outcome # "ok" THEN Return(t, r, Caught("get_status", r))
                 ELSE tasks' = [tasks EXCEPT ![t].trace = Append(@, Record(r)),
                                             ![t].project_id = r.value,
                                             ![t].pc = "deployments"]
       \/ /\ c.pc = "deployments"
          /\ LET request == <<"GET", "deployments", c.project_id, "take=50">>
             IN  IF Raises(c)
                 THEN LET r == Response(request, "raised", <<"transport">>)
                      IN  Return(t, r, Caught("get_status", r))
                 ELSE Return(t, Response(request, "ok", c.server.deployments),
                             latest_per_environment(c.server.deployments, << >>))
    /\ UNCHANGED <<pending, timers, audit>>

ResolverNext ==
    \/ \E t \in 1..Len(tasks) : deploy(t)
    \/ \E t \in 1..Len(tasks) : rollback(t)
    \/ \E t \in 1..Len(tasks) : get_status(t)

ResolverSpec == ResolverInit /\ [][ResolverNext]_vars

\* ------------------------------------------------ the audit logger alone
\* AuditLogger under concurrent callers.  A log call opens its own
\* connection, reads the clock when its VALUES tuple is built, and only then
\* awaits the INSERT, so another call can read the clock and write in
\* between.  The query of get_history is one SELECT.
LoggedApps == {"myapp", "other"}
LoggedResults == {Triggered, << >>}
Limits == {1, 2, HISTORY_LIMIT}

\* datetime.utcnow(): later readings are larger
utcnow == 1 + Cardinality({t \in 1..Len(tasks) :
                              tasks[t].kind = "log" /\ tasks[t].timestamp > 0})

\* a caller awaits audit.log(...): aiosqlite.connect, _ensure_table
log_connect ==
    /\ Len(tasks) < MaxCalls
    /\ \E app \in LoggedApps, result \in LoggedResults :
         tasks' = Append(tasks, [kind |-> "log", pc |-> "connected", user |-> "alice",
                                 action |-> "deploy", app |-> app, details |-> << >>,
                                 result |-> result, timestamp |-> 0])
    /\ UNCHANGED <<pending, timers, audit>>

\* the VALUES tuple is built: datetime.utcnow().isoformat()
log_values(t) ==
    /\ tasks[t].kind = "log"
    /\ tasks[t].pc = "connected"
    /\ tasks' = [tasks EXCEPT ![t].timestamp = utcnow, ![t].pc = "insert"]
    /\ UNCHANGED <<pending, timers, audit>>

\* await db.execute(INSERT ...); await db.commit(), or the write raises
log_commit(t) ==
    LET c == tasks[t] IN
    /\ c.kind = "log"
    /\ c.pc = "insert"
    /\ \/ /\ audit' = insert(c.timestamp, c.user, c.action, c.app, c.details, c.result)
          /\ tasks' = [tasks EXCEPT ![t].pc = "done"]
       \/ /\ tasks' = [tasks EXCEPT ![t].pc = "raised"]
          /\ UNCHANGED audit
    /\ UNCHANGED <<pending, timers>>

\* a caller awaits audit.get_history(app, limit)
history ==
    /\ Len(tasks) < MaxCalls
    /\ \E app \in LoggedApps, limit \in Limits :
         tasks' = Append(tasks, [kind |-> "history", pc |-> "done", app |-> app,
                                 limit |-> limit, result |-> get_history(app, limit)])
    /\ UNCHANGED <<pending, timers, audit>>

AuditInit ==
    /\ pending = << >>
    /\ timers = << >>
    /\ tasks = << >>
    /\ audit = << >>

AuditNext ==
    \/ log_connect
    \/ \E t \in 1..Len(tasks) : log_values(t)
    \/ \E t \in 1..Len(tasks) : log_commit(t)
    \/ history

AuditSpec == AuditInit /\ [][AuditNext]_vars

\* ------------------------------------------------------ the parser alone
\* A text is handed to parse_command, and the raw field of the result is
\* handed to it again.
ParseInit ==
    /\ pending = << >>
    /\ timers = << >>
    /\ audit = << >>
    /\ \E text \in ParserInputs :
         tasks = <<Task("message", "received", None, text, NoCommand)>>

parse(t) ==
    /\ tasks[t].pc = "received"
    /\ tasks' = [tasks EXCEPT ![t].cmd = parse_command(tasks[t].text),
                              ![t].pc = "parsed"]
    /\ UNCHANGED <<pending, timers, audit>>

reparse(t) ==
    /\ Len(tasks) = 1
    /\ tasks[t].pc = "parsed"
    /\ tasks' = Append(tasks, Task("message", "received", None,
                                   tasks[t].cmd.raw, NoCommand))
    /\ UNCHANGED <<pending, timers, audit>>

ParseNext ==
    \/ \E t \in 1..Len(tasks) : parse(t)
    \/ \E t \in 1..Len(tasks) : reparse(t)

ParseSpec == ParseInit /\ [][ParseNext]_vars

\* ================================================================ claims
T == 1..Len(tasks)
Ids == DOMAIN timers
Finished(t) == tasks[t].pc \in {"done", "raised"}

\* The response tasks by the branch of handle_response they took.
Consumed(t) == tasks[t].approval # NoApproval
ApproveBranch(t) == Consumed(t) /\ tasks[t].approved
RejectBranch(t) == Consumed(t) /\ ~tasks[t].approved
AbsentBranch(t) ==
    /\ tasks[t].kind = "invoke"
    /\ ~Consumed(t)
    /\ (tasks[t].pc = "send_handled" \/ tasks[t].trace # << >>)

EventsOf(trace, ev) == SelectSeq(trace, LAMBDA e : e.ev = ev)
SendsOf(trace, what) == SelectSeq(trace, LAMBDA e : e.ev = "send" /\ e.what = what)

\* The terminal effects on an approval id.
Executions(id) ==
    {p \in T \X (1..4) : /\ tasks[p[1]].approval.id = id
                         /\ p[2] <= Len(tasks[p[1]].trace)
                         /\ tasks[p[1]].trace[p[2]].ev = "call"}
Rejections(id) == {t \in T : RejectBranch(t) /\ tasks[t].approval.id = id}
Expirations(id) == IF timers[id].approval.id = id THEN {id} ELSE {}
TerminalEffects(id) ==
    Cardinality(Executions(id)) + Cardinality(Rejections(id)) + Cardinality(Expirations(id))
Settled(id) ==
    /\ id \notin DOMAIN pending
    /\ timers[id].pc = "done"
    /\ \A t \in T : tasks[t].aid = id => Finished(t)

\* C1: for one approval id, whatever the interleaving of the responses and
\* the expiry timer, exactly one terminal effect occurs: the gated action is
\* executed once, or the request is rejected once, or it expires once; never
\* more than one, and never none once the responses and the timer are over.
C1_ExactlyOneTerminalEffect ==
    \A id \in Ids :
        /\ TerminalEffects(id) <= 1
        /\ Settled(id) => TerminalEffects(id) = 1

\* The entry created under id, wherever it is now: still pending, or held
\* by the response or the timer that popped it.
RecordOf(id) ==
    IF id \in DOMAIN pending THEN pending[id]
    ELSE IF timers[id].approval.id = id THEN timers[id].approval
    ELSE tasks[CHOOSE t \in T : tasks[t].approval.id = id].approval

ValidCommand(t, action) ==
    /\ tasks[t].kind = "message"
    /\ tasks[t].cmd.action = action
    /\ tasks[t].cmd.error = NoError

\* C2: a deploy command for an environment of the approval-required set
\* creates exactly one pending approval, with the command's app, build
\* number and environment, and no resolver call is made for it before an
\* approve response for that id; a deploy command for any other environment
\* calls the resolver's deploy within the request and creates no approval.
C2_DeployGate ==
    \A t \in T : ValidCommand(t, "deploy") =>
        LET cmd == tasks[t].cmd
            id == tasks[t].created
            calls == EventsOf(tasks[t].trace, "call")
        IN  IF cmd.environment \in {"uat", "prod"}
            THEN /\ id \in Ids
                 /\ Cardinality({k \in Ids : RecordOf(k).turn_context = t}) = 1
                 /\ RecordOf(id).app = cmd.app
                 /\ RecordOf(id).build_number = cmd.build_number
                 /\ RecordOf(id).environment = cmd.environment
                 /\ calls = << >>
                 /\ Executions(id) # {} => \E r \in T : ApproveBranch(r) /\ tasks[r].aid = id
            ELSE /\ id = NoId
                 /\ \A k \in Ids : RecordOf(k).turn_context # t
                 /\ Finished(t) =>
                       /\ Len(calls) = 1
                       /\ calls[1].what = "deploy"
                       /\ calls[1].args = <<cmd.app, cmd.build_number, cmd.environment>>

\* C3: an approve response on a pending id sends the acceptance
\* notification, then makes exactly one resolver call (rollback(app,
\* environment) for a rollback entry, deploy(app, build_number, environment)
\* otherwise), then appends exactly one audit record `rollback_approved` or
\* `deploy_approved` with the resolver's result, then sends the outcome
\* notification (the success link for status triggered, the failure message
\* otherwise).  Stated for the responses whose acceptance notification was
\* sent.
C3_ApproveSequence ==
    \A t \in T :
        (ApproveBranch(t) /\ Finished(t) /\ tasks[t].trace[1].res = "sent") =>
            LET tr == tasks[t].trace
                a == tasks[t].approval
                action == IF a.is_rollback THEN "rollback" ELSE "deploy"
            IN  /\ Len(tr) = 4
                /\ tr[1].ev = "send" /\ tr[1].what = "accepted"
                /\ tr[2].ev = "call" /\ tr[2].what = action
                /\ tr[2].args = IF a.is_rollback THEN <<a.app, a.environment>>
                                ELSE <<a.app, a.build_number, a.environment>>
                /\ tr[3].ev = "audit" /\ tr[3].what = action \o "_approved"
                /\ tr[3].res = tr[2].res
                /\ tr[4].ev = "send"
                /\ tr[4].what = IF tr[2].res.status = "triggered" THEN "deployment_triggered"
                                ELSE "deployment_failed"

\* C4: handle_response on an id that is not in the registry never raises: it
\* notifies the responder that the request was already handled or expired
\* and does nothing else (no resolver call, no audit record).
C4_AbsentIdNeverRaises ==
    \A t \in T : AbsentBranch(t) =>
        /\ tasks[t].pc # "raised"
        /\ \A i \in 1..Len(tasks[t].trace) :
              tasks[t].trace[i].ev = "send" /\ tasks[t].trace[i].what = "already_handled"
        /\ Finished(t) => Len(tasks[t].trace) = 1

\* C5: per approval id the entry is removed exactly once (by one response or
\* by the timer), it is never inserted again, and every response or timer
\* firing that comes after the removal causes no execution, no rejection
\* notice and no expiry notice.
Removals(id) ==
    Cardinality({t \in T : tasks[t].approval.id = id})
        + (IF timers[id].approval.id = id THEN 1 ELSE 0)

C6_TimerState ==
    \A id \in Ids :
        /\ timers[id].pc \in {"sleeping", "notifying", "done"}
        /\ timers[id].pc # "sleeping" => id \notin DOMAIN pending
        /\ timers[id].pc = "done" =>
              IF timers[id].approval.id = id
              THEN /\ Len(timers[id].trace) = 1
                   /\ timers[id].trace[1].ev = "send"
                   /\ timers[id].trace[1].what = "expired"
                   /\ \E t \in T : /\ tasks[t].created = id
                                   /\ timers[id].trace[1].args[3] = t
              ELSE timers[id].trace = << >>

C6_TimerStep ==
    \A id \in Ids :
        timers'[id] # timers[id] =>
            pending' = [k \in DOMAIN pending \ {id} |-> pending[k]]

C6_ExpiryTimer == [] C6_TimerState /\ [][C6_TimerStep]_vars

\* the expiry notification failed, the timer ended, another entry is pending
C6_Witness ==
    \E id \in Ids :
        /\ timers[id].pc = "done"
        /\ timers[id].approval.id = id
        /\ timers[id].trace[1].res = "failed"
        /\ DOMAIN pending # {}

\* C7: a failed notification never fails the core operation: when an approve
\* response has removed a pending entry and a notification to the responder
\* fails, the approved deploy or rollback is still executed and audited.
C7_NotificationFailureSwallowed ==
    \A t \in T :
        (/\ ApproveBranch(t)
         /\ Finished(t)
         /\ \E i \in 1..Len(tasks[t].trace) :
               tasks[t].trace[i].ev = "send" /\ tasks[t].trace[i].res = "failed") =>
            /\ Len(EventsOf(tasks[t].trace, "call")) = 1
            /\ Len(EventsOf(tasks[t].trace, "audit")) = 1

\* C8: every valid rollback command, for every environment, creates a pending
\* approval with is_rollback = TRUE and makes no resolver call in the
\* requesting task; a rollback is called only by an approve response that
\* consumed a rollback entry.
C8_RollbackAlwaysGated ==
    /\ \A t \in T : ValidCommand(t, "rollback") =>
          /\ tasks[t].created \in Ids
          /\ RecordOf(tasks[t].created).is_rollback
          /\ RecordOf(tasks[t].created).app = tasks[t].cmd.app
          /\ RecordOf(tasks[t].created).environment = tasks[t].cmd.environment
          /\ RecordOf(tasks[t].created).turn_context = t
          /\ EventsOf(tasks[t].trace, "call") = << >>
    /\ \A t \in T : \A i \in 1..Len(tasks[t].trace) :
          (tasks[t].trace[i].ev = "call" /\ tasks[t].trace[i].what = "rollback") =>
              ApproveBranch(t) /\ tasks[t].approval.is_rollback

\* a rollback to qa, which is no approval-required environment, waits for
\* its approval after the request has ended
C8_Witness ==
    \E t \in T :
        /\ ValidCommand(t, "rollback")
        /\ tasks[t].cmd.environment \notin APPROVAL_REQUIRED_ENVS
        /\ tasks[t].pc = "done"
        /\ tasks[t].created \in DOMAIN pending
        /\ pending[tasks[t].created].is_rollback

\* C9: a reject response on a pending id removes the entry, notifies of the
\* rejection and executes nothing: no resolver call is made for that id,
\* then or later.
C9_RejectNoExecution ==
    \A t \in T : RejectBranch(t) =>
        /\ tasks[t].approval.id \notin DOMAIN pending
        /\ Executions(tasks[t].approval.id) = {}
        /\ IF Finished(t)
           THEN /\ Len(tasks[t].trace) = 1
                /\ tasks[t].trace[1].ev = "send"
                /\ tasks[t].trace[1].what = "rejected"
           ELSE tasks[t].pc = "send_rejected" /\ tasks[t].trace = << >>

\* a reject response consumed a pending entry and its notice was sent
C9_Witness ==
    \E t \in T :
        /\ RejectBranch(t)
        /\ tasks[t].pc = "done"
        /\ tasks[t].trace[1].res = "sent"
        /\ timers[tasks[t].approval.id].pc = "done"

\* C10: an audit record is written after every terminal action (build
\* triggered, deploy triggered, approval granted, approval denied, rollback
\* executed): a handler that performed one and returned appended one record.
C10_AuditAfterEveryTerminalAction ==
    \A t \in T :
        (/\ tasks[t].pc = "done"
         /\ \/ EventsOf(tasks[t].trace, "call") # << >> /\ tasks[t].cmd.action # "status"
            \/ ApproveBranch(t)
            \/ RejectBranch(t)) =>
            Len(EventsOf(tasks[t].trace, "audit")) = 1

\* ------------------------------------------------------------ C11..C15
AuditWriteFailed(t) ==
    \E i \in 1..Len(tasks[t].trace) : tasks[t].trace[i].what = "audit.log"

\* The calls of the release system by task t that ended with a NotFound
\* error.
NotFoundCalls(t) ==
    {i \in 1..Len(tasks[t].trace) :
        /\ tasks[t].trace[i].ev = "call"
        /\ tasks[t].trace[i].what \in {"deploy", "rollback"}
        /\ tasks[t].trace[i].res = NotFound}

\* C11: when a deploy or a rollback fails with a NotFound error, no audit
\* record of the attempt is written unless an approval had been granted for
\* it; when an approval had been granted, the `_approved` audit record of
\* the approval carries the failure result.
C11_NotFoundAudit ==
    \A t \in T :
        (Finished(t) /\ NotFoundCalls(t) # {}) =>
            IF ApproveBranch(t)
            THEN \E i \in 1..Len(tasks[t].trace) :
                    /\ tasks[t].trace[i].ev = "audit"
                    /\ tasks[t].trace[i].what \in {"deploy_approved", "rollback_approved"}
                    /\ tasks[t].trace[i].res = NotFound
            ELSE EventsOf(tasks[t].trace, "audit") = << >>

\* C12: a deploy command for an environment that is not approval-required
\* calls the resolver's deploy exactly once, with the command's app, build
\* number and environment, and then appends exactly one audit record with
\* action `deploy` carrying the resolver's result.  Stated for the requests
\* whose audit write the store accepted.
C12_DirectDeployAudited ==
    \A t \in T :
        (/\ ValidCommand(t, "deploy")
         /\ tasks[t].cmd.environment \notin {"uat", "prod"}
         /\ Finished(t)
         /\ ~AuditWriteFailed(t)) =>
            LET cmd == tasks[t].cmd
                calls == EventsOf(tasks[t].trace, "call")
                rows == EventsOf(tasks[t].trace, "audit")
            IN  /\ Len(calls) = 1
                /\ calls[1].what = "deploy"
                /\ calls[1].args = <<cmd.app, cmd.build_number, cmd.environment>>
                /\ Len(rows) = 1
                /\ rows[1].what = "deploy"
                /\ rows[1].res = calls[1].res
                /\ \E k \in 1..Len(audit) :
                      /\ audit[k].action = "deploy"
                      /\ audit[k].app = cmd.app
                      /\ audit[k].result = calls[1].res

\* C13: for a text for which parse_command sets an error, the request only
\* reports the error: no build is triggered, no resolver call is made, no
\* pending approval is created and no audit record is written.
C13_ParseErrorOnlyReported ==
    \A t \in T :
        (tasks[t].kind = "message" /\ tasks[t].cmd.error # NoError) =>
            /\ tasks[t].created = NoId
            /\ \A k \in Ids : RecordOf(k).turn_context # t
            /\ \A i \in 1..Len(tasks[t].trace) :
                  /\ tasks[t].trace[i].ev = "send"
                  /\ tasks[t].trace[i].what = "send_error"
                  /\ tasks[t].trace[i].args = tasks[t].cmd.error
            /\ Finished(t) => Len(tasks[t].trace) = 1

\* "build myapp" was answered with its usage error and the ledger is empty
C13_Witness ==
    \E t \in T :
        /\ tasks[t].text = Join(<<"build", "myapp">>)
        /\ tasks[t].cmd.error # NoError
        /\ tasks[t].pc = "done"
        /\ audit = << >>

\* C14: a valid build command triggers the build collaborator exactly once
\* in the requesting task and then appends exactly one audit record with
\* action `build` carrying the trigger result; it never creates a pending
\* approval.  Stated for the requests whose audit write the store accepted.
C14_BuildNeverGated ==
    \A t \in T :
        ValidCommand(t, "build") =>
            /\ tasks[t].created = NoId
            /\ \A k \in Ids : RecordOf(k).turn_context # t
            /\ (Finished(t) /\ ~AuditWriteFailed(t)) =>
                  LET cmd == tasks[t].cmd
                      calls == EventsOf(tasks[t].trace, "call")
                      rows == EventsOf(tasks[t].trace, "audit")
                  IN  /\ Len(calls) = 1
                      /\ calls[1].what = "trigger_build"
                      /\ calls[1].args = <<cmd.app, cmd.branch>>
                      /\ Len(rows) = 1
                      /\ rows[1].what = "build"
                      /\ rows[1].res = calls[1].res

\* C15: status and history commands, help, unknown commands and parse
\* errors are read-only: their requests never create a pending approval,
\* never submit a deployment or trigger a build, never append an audit
\* record, and no step of theirs changes the registry or the ledger.
ReadOnly(task) ==
    /\ task.kind = "message"
    /\ \/ task.cmd.error # NoError
       \/ task.cmd.action \in {"status", "history", "help", "unknown"}

C15_ReadOnlyState ==
    \A t \in T : ReadOnly(tasks[t]) =>
        /\ tasks[t].created = NoId
        /\ \A k \in Ids : RecordOf(k).turn_context # t
        /\ \A i \in 1..Len(tasks[t].trace) :
              /\ tasks[t].trace[i].ev # "audit"
              /\ tasks[t].trace[i].ev = "call" => tasks[t].trace[i].what = "get_status"

C15_ReadOnlyStep ==
    \A t \in 1..Len(tasks') :
        (/\ ReadOnly(tasks'[t])
         /\ (t > Len(tasks) \/ tasks'[t] # tasks[t])) =>
            /\ pending' = pending
            /\ timers' = timers
            /\ audit' = audit

C15_ReadOnlyCommands == [] C15_ReadOnlyState /\ [][C15_ReadOnlyStep]_vars

\* a history request showed the one record of the ledger and left it alone
C15_Witness ==
    \E t \in T :
        /\ ValidCommand(t, "history")
        /\ tasks[t].pc = "done"
        /\ Len(tasks[t].trace[1].res) = 1
        /\ Len(audit) = 1

\* ------------------------------------------------------------ C16..C20
\* The words of a text as the operator typed them, mention markup removed.
Words(text) == Split(StripMentions(text), "")

\* The action a first word stands for, whatever its case.
ActionOf(word) ==
    CASE word \in {"build", "Build", "BUILD"} -> "build"
      [] word \in {"deploy", "Deploy", "DEPLOY"} -> "deploy"
      [] word \in {"status", "Status", "STATUS"} -> "status"
      [] word \in {"rollback", "Rollback", "ROLLBACK"} -> "rollback"
      [] word \in {"history", "History", "HISTORY"} -> "history"
      [] word \in {"help", "Help", "HELP"} -> "help"
      [] OTHER -> "unknown"

\* The number of arguments an action requires.
Required(action) ==
    CASE action = "build" -> 2
      [] action = "deploy" -> 3
      [] action = "status" -> 1
      [] action = "rollback" -> 2
      [] action = "history" -> 1
      [] OTHER -> 0

Parsed(t) == tasks[t].pc = "parsed"
FirstAction(t) == ActionOf(Words(tasks[t].text)[1])
Arguments(t) == Len(Words(tasks[t].text)) - 1

\* C16: for every input whose first word is a known action and which has
\* fewer arguments than the action requires (build 2, deploy 3, status 1,
\* rollback 2, history 1), parse_command returns a command with that action
\* and an error, and with app, branch, build_number and environment unset.
C16_TooFewArguments ==
    \A t \in T :
        (/\ Parsed(t)
         /\ Words(tasks[t].text) # << >>
         /\ Arguments(t) < Required(FirstAction(t))) =>
            /\ tasks[t].cmd.action = FirstAction(t)
            /\ tasks[t].cmd.error # NoError
            /\ tasks[t].cmd.app = None
            /\ tasks[t].cmd.branch = None
            /\ tasks[t].cmd.build_number = None
            /\ tasks[t].cmd.environment = None

\* "Deploy MyApp 42" after a mention: a usage error for deploy
C16_Witness ==
    \E t \in T :
        /\ Parsed(t)
        /\ tasks[t].text = Mention \o <<Space>> \o Join(<<"Deploy", "MyApp", "42">>)
        /\ tasks[t].cmd.action = "deploy"
        /\ tasks[t].cmd.error # NoError

\* C17: parse_command accepts a build command only with exactly 2 arguments
\* and a deploy command only with exactly 3; any other number of arguments,
\* more than required included, yields a command with an error.
C17_ExactArity ==
    \A t \in T :
        (/\ Parsed(t)
         /\ Words(tasks[t].text) # << >>
         /\ FirstAction(t) \in {"build", "deploy"}
         /\ Arguments(t) # Required(FirstAction(t))) =>
            tasks[t].cmd.error # NoError

\* C18: parse_command is idempotent on its own output: parsing the raw field
\* of a result gives the same result in every field, also for texts with
\* mention markup.
C18_IdempotentOnRaw ==
    (Len(tasks) = 2 /\ Parsed(1) /\ Parsed(2)) => tasks[2].cmd = tasks[1].cmd

\* C19: for deploy and rollback an environment word outside {qa, uat, prod}
\* yields a command with an error naming that word (case-folded); every
\* command without error whose action is deploy or rollback has its
\* environment in {qa, uat, prod}; and no pending approval and no resolver
\* call is ever made for an environment outside that set.
EnvWord(t) ==
    LET words == Words(tasks[t].text)
    IN  IF FirstAction(t) = "deploy" THEN words[4] ELSE words[3]

StartsWithMention(text) == Len(text) >= 3 /\ SubSeq(text, 1, 3) = Mention
NoTags(text) == \A i \in 1..Len(text) : text[i] \notin {OpenTag, CloseTag}

RECURSIVE OnlyMentions(_)
OnlyMentions(text) ==
    IF text = << >> THEN TRUE
    ELSE IF Head(text) = Space THEN OnlyMentions(Tail(text))
    ELSE IF StartsWithMention(text)
         THEN OnlyMentions(SubSeq(text, 4, Len(text)))
    ELSE FALSE

C20_ParseTotal ==
    \A t \in T : Parsed(t) =>
        LET cmd == tasks[t].cmd
            words == Words(tasks[t].text)
        IN  /\ cmd.action \in VALID_ACTIONS \cup {"unknown"}
            /\ OnlyMentions(tasks[t].text) =>
                  cmd.action = "help" /\ cmd.error = NoError
            /\ words # << >> =>
                  /\ cmd.action = FirstAction(t)
                  /\ FirstAction(t) = "unknown" =>
                        cmd.error = <<"Unknown command", Lower(words[1])>>
            /\ (StartsWithMention(tasks[t].text)
                   /\ NoTags(SubSeq(tasks[t].text, 4, Len(tasks[t].text)))) =>
                  /\ cmd.raw = Strip(SubSeq(tasks[t].text, 4, Len(tasks[t].text)))
                  /\ NoTags(cmd.raw)

\* "Deploy MyApp 42 PROD" after a mention is a deploy
C20_Witness ==
    \E t \in T :
        /\ Parsed(t)
        /\ tasks[t].text = Mention \o <<Space>> \o Join(<<"Deploy", "MyApp", "42", "PROD">>)
        /\ tasks[t].cmd.action = "deploy"
        /\ tasks[t].cmd.error = NoError

\* ------------------------------------------------------------ C21..C30
\* C21: create inserts exactly one new entry, under an id that no entry has
\* or had, leaves the existing entries unchanged, starts exactly one expiry
\* timer for that id, and returns the id while that timer still sleeps; no
\* other step adds an entry or a timer.
Creates == Len(tasks') > Len(tasks) /\ tasks'[Len(tasks')].created # NoId

C21_CreateStep ==
    /\ Creates =>
          LET id == tasks'[Len(tasks')].created
          IN  /\ id \notin DOMAIN pending
              /\ id \notin DOMAIN timers
              /\ DOMAIN pending' = DOMAIN pending \cup {id}
              /\ \A k \in DOMAIN pending : pending'[k] = pending[k]
              /\ pending'[id].id = id
              /\ DOMAIN timers' = DOMAIN timers \cup {id}
              /\ \A k \in DOMAIN timers : timers'[k] = timers[k]
              /\ timers'[id].pc = "sleeping"
              /\ tasks'[Len(tasks')].pc = "approval_card"
    /\ ~Creates =>
          /\ DOMAIN pending' \subseteq DOMAIN pending
          /\ DOMAIN timers' = DOMAIN timers

C21_CreateFresh == [][C21_CreateStep]_vars

\* two requests wait under different ids, each with its sleeping timer,
\* and the second request has its id while both timers sleep
C21_Witness ==
    /\ DOMAIN pending = {1, 2}
    /\ timers[1].pc = "sleeping"
    /\ timers[2].pc = "sleeping"
    /\ tasks[2].created = 2
    /\ tasks[2].pc = "done"

\* C25: the audit ledger is append-only: a log call appends exactly one
\* record, and no step of the system changes or deletes an existing record.
Logged ==
    Len(SelectSeq(tasks, LAMBDA task : EventsOf(task.trace, "audit") # << >>))

C25_LedgerState ==
    /\ Len(audit) = Logged
    /\ \A k \in 1..Len(audit) : audit[k].id = k

C25_LedgerStep ==
    \/ audit' = audit
    \/ /\ Len(audit') = Len(audit) + 1
       /\ SubSeq(audit', 1, Len(audit)) = audit

C25_AppendOnly == [] C25_LedgerState /\ [][C25_LedgerStep]_vars

\* a build and a deploy were logged, in that order
C25_Witness ==
    /\ Len(audit) = 2
    /\ audit[1].action = "build"
    /\ audit[2].action = "deploy"

\* C26: a failure stays within its request: every step of a request (a
\* command, a response, an expiry) leaves the other requests, the other
\* pending entries and the existing audit records as they were, and a step
\* that ends its request with an exception writes nothing.
OthersKept(ids) ==
    \A k \in DOMAIN pending \ ids : k \in DOMAIN pending' /\ pending'[k] = pending[k]

LedgerKept == Len(audit') >= Len(audit) /\ SubSeq(audit', 1, Len(audit)) = audit

C26_IsolatedStep ==
    /\ \A t \in 1..Len(tasks) :
          tasks'[t] # tasks[t] =>
              /\ Len(tasks') = Len(tasks)
              /\ \A u \in 1..Len(tasks) : u # t => tasks'[u] = tasks[u]
              /\ pending' = pending
              /\ timers' = timers
              /\ LedgerKept
              /\ tasks'[t].pc = "raised" => audit' = audit
    /\ Len(tasks') > Len(tasks) =>
          /\ SubSeq(tasks', 1, Len(tasks)) = tasks
          /\ OthersKept({tasks'[Len(tasks')].aid})
          /\ \A k \in DOMAIN timers : timers'[k] = timers[k]
          /\ audit' = audit
    /\ \A id \in DOMAIN timers :
          timers'[id] # timers[id] =>
              /\ tasks' = tasks
              /\ OthersKept({id})
              /\ \A k \in DOMAIN timers : k # id => timers'[k] = timers[k]
              /\ audit' = audit

C26_FailureIsolated == [][C26_IsolatedStep]_vars

\* a request failed, and the request after it completed and was audited
C26_Witness ==
    /\ Len(tasks) = 2
    /\ tasks[1].pc = "raised"
    /\ tasks[2].pc = "done"
    /\ Len(audit) = 1

\* C30: of several responses to one pending id, handled concurrently, exactly
\* one consumes the entry: at most one resolver call and at most one
\* `_approved` audit record are made for the id, and every other response
\* takes the `already handled` branch.
ResponsesTo(id) == {t \in T : tasks[t].kind = "invoke" /\ tasks[t].aid = id}

Consumers(id) == {t \in T : tasks[t].approval.id = id}

ApprovedRows(id) ==
    {p \in T \X (1..4) : /\ tasks[p[1]].approval.id = id
                         /\ p[2] <= Len(tasks[p[1]].trace)
                         /\ tasks[p[1]].trace[p[2]].ev = "audit"}

C30_OneResponseWins ==
    \A id \in Ids :
        /\ Cardinality(Consumers(id)) <= 1
        /\ Cardinality(Executions(id)) <= 1
        /\ Cardinality(ApprovedRows(id)) <= 1
        /\ (ResponsesTo(id) # {} /\ timers[id].approval.id # id) =>
              Cardinality(Consumers(id)) = 1
        /\ \A t \in ResponsesTo(id) \ Consumers(id) :
              /\ tasks[t].pc \in {"send_handled", "done", "raised"}
              /\ \A i \in 1..Len(tasks[t].trace) :
                    /\ tasks[t].trace[i].ev = "send"
                    /\ tasks[t].trace[i].what = "already_handled"

\* two approvers clicked approve: the first consumed the entry and is still
\* at its acceptance notice, the second was told the request was handled
C30_Witness ==
    /\ Len(tasks) = 2
    /\ tasks[1].user # tasks[2].user
    /\ tasks[1].approved /\ tasks[2].approved
    /\ tasks[1].approval.id = 1
    /\ tasks[1].pc = "send_accepted"
    /\ tasks[2].aid = 1
    /\ tasks[2].pc = "done"
    /\ tasks[2].trace[1].what = "already_handled"

\* ------------------------------------------------ claims on the resolver
Calls(op) == {t \in 1..Len(tasks) : tasks[t].kind = op}

Posts(c) == {i \in 1..Len(c.trace) : c.trace[i].request[1] = "POST"}

\* build_number occurs in version, character by character
IsSubstring(build_number, version) ==
    \E off \in 0..Len(version) :
        /\ off + Len(build_number) <= Len(version)
        /\ \A j \in 1..Len(build_number) : version[off + j] = build_number[j]

\* The lookups before the submission find what they look for, and no request
\* before the submission fails in transport.
Resolves(c) ==
    /\ c.app \in c.server.projects
    /\ ENV_NAME_MAP(c.environment) \in c.server.environments
    /\ c.server.fails \notin 1..3

ErrorResult(result) ==
    /\ DOMAIN result = {"status", "message"}
    /\ result.status = "error"

\* C22: rollback of a project with fewer than 2 releases returns an error
\* result and submits no deployment; with at least 2 releases (project and
\* environment resolved, no transport failure before the submission) it
\* submits exactly one deployment of the second-most-recent release to the
\* resolved environment, and when that request succeeds it returns
\* {status: triggered, rollback_to: that release's version, deployment_id}.
C22_RollbackPrevious ==
    \A t \in Calls("rollback") :
        LET c == tasks[t]
            releases == c.server.releases
        IN  /\ Cardinality(Posts(c)) <= 1
            /\ Len(releases) < 2 =>
                  /\ Posts(c) = {}
                  /\ c.pc = "done" => ErrorResult(c.result)
            /\ (Len(releases) >= 2 /\ Resolves(c) /\ c.pc = "done") =>
                  /\ Posts(c) = {4}
                  /\ c.trace[4].request[3] =
                        [ReleaseId |-> releases[2].Id,
                         EnvironmentId |-> <<"Environments", ENV_NAME_MAP(c.environment)>>]
                  /\ c.server.fails # 4 =>
                        c.result = [status |-> "triggered",
                                    rollback_to |-> releases[2].Version,
                                    deployment_id |-> <<"Deployments", 1>>]
                  /\ c.server.fails = 4 => ErrorResult(c.result)

\* a rollback over three releases, the two newest of different versions, has
\* returned the version of the second
C22_Witness ==
    \E t \in Calls("rollback") :
        /\ tasks[t].pc = "done"
        /\ Len(tasks[t].server.releases) = 3
        /\ tasks[t].server.releases[1].Version # tasks[t].server.releases[2].Version
        /\ DOMAIN tasks[t].result = {"status", "rollback_to", "deployment_id"}
        /\ tasks[t].result.rollback_to = tasks[t].server.releases[2].Version

\* C23: on every failure path of deploy, rollback and get_status (a lookup
\* that finds nothing, a request that fails in transport) the operation
\* returns a result of the shape {status: error, message}.
C23_StructuredErrors ==
    \A t \in 1..Len(tasks) :
        LET c == tasks[t]
        IN  (/\ c.kind \in {"deploy", "rollback", "get_status"}
             /\ c.pc = "done"
             /\ c.trace[Len(c.trace)].outcome # "ok") => ErrorResult(c.result)

\* C27: deploy looks up the project, then the environment, then the release;
\* after a failed lookup it makes no further request and returns
\* {status: error, message}; only when all three are resolved does it submit
\* one deployment, of the resolved release to the resolved environment, and
\* it returns {status: triggered, deployment_id, url} when that succeeded.
C27_DeployOrder ==
    \A t \in Calls("deploy") :
        LET c == tasks[t]
            n == Len(c.trace)
            order == <<"projects", "environments", "releases", "deployments">>
            found == \E k \in 1..Len(c.server.releases) :
                        IsSubstring(c.build_number, c.server.releases[k].Version)
        IN  /\ n <= 4
            /\ \A i \in 1..n :
                  /\ c.trace[i].request[2] = order[i]
                  /\ c.trace[i].request[1] = (IF i = 4 THEN "POST" ELSE "GET")
                  /\ i < n => c.trace[i].outcome = "ok"
            /\ n = 4 =>
                  /\ Resolves(c) /\ found
                  /\ c.project_id = <<"Projects", c.app>>
                  /\ c.trace[4].request[3] =
                        [ReleaseId |-> c.release_id,
                         EnvironmentId |-> <<"Environments", ENV_NAME_MAP(c.environment)>>]
                  /\ \E k \in 1..Len(c.server.releases) :
                        c.server.releases[k].Id = c.release_id
            /\ c.pc = "done" =>
                  /\ n >= 1
                  /\ (Resolves(c) /\ found) => n = 4
                  /\ IF n = 4 /\ c.trace[n].outcome = "ok"
                     THEN /\ DOMAIN c.result = {"status", "deployment_id", "url"}
                          /\ c.result.status = "triggered"
                     ELSE /\ c.trace[n].outcome # "ok"
                          /\ ErrorResult(c.result)

\* a deploy whose environment is unknown has returned after two lookups, and
\* the release that would have matched was never looked up
C27_Witness ==
    \E t \in Calls("deploy") :
        /\ tasks[t].pc = "done"
        /\ Len(tasks[t].trace) = 2
        /\ tasks[t].trace[2].outcome = "empty"
        /\ tasks[t].server.fails = 0
        /\ Len(tasks[t].server.releases) > 0
        /\ IsSubstring(tasks[t].build_number, tasks[t].server.releases[1].Version)

\* C28: the release lookup returns the id of the first release, in the order
\* the release system returned them, whose version contains build_number as
\* a substring, and a NotFound error when no release matches; it never
\* returns a release whose version does not contain build_number.
C28_FirstMatchingRelease ==
    \A t \in Calls("deploy") :
        LET c == tasks[t]
            items == c.server.releases
            hit(k) == IsSubstring(c.build_number, items[k].Version)
        IN  (Len(c.trace) >= 3 /\ c.trace[3].outcome # "raised") =>
               IF \E k \in 1..Len(items) : hit(k)
               THEN /\ c.trace[3].outcome = "ok"
                    /\ \E k \in 1..Len(items) :
                          /\ hit(k)
                          /\ \A j \in 1..(k - 1) : ~hit(j)
                          /\ c.release_id = items[k].Id
               ELSE /\ c.trace[3].outcome = "empty"
                    /\ c.release_id = Unresolved
                    /\ c.result = Result("error",
                          <<"No Octopus release found containing build number",
                            c.build_number>>)

\* build 42 over releases 7, 1.420, 42: the lookup returned the second
\* release, whose version only contains the number, not the third
C28_Witness ==
    \E t \in Calls("deploy") :
        /\ tasks[t].build_number = <<"4", "2">>
        /\ Len(tasks[t].server.releases) = 3
        /\ tasks[t].server.releases[1].Version = <<"7">>
        /\ tasks[t].server.releases[2].Version = <<"1", ".", "4", "2", "0">>
        /\ tasks[t].server.releases[3].Version = <<"4", "2">>
        /\ tasks[t].pc = "post"
        /\ tasks[t].release_id = <<"Releases", 2>>

\* C29: get_status returns one entry per distinct environment id among the
\* fetched deployments (`unknown` for a deployment without one), and each
\* entry is the first deployment of that environment in the returned order.
C29_FirstPerEnvironment ==
    \A t \in Calls("get_status") :
        LET c == tasks[t]
            items == c.server.deployments
            envs == {EnvironmentOf(items[i]) : i \in 1..Len(items)}
            first(e) == CHOOSE i \in 1..Len(items) :
                           /\ EnvironmentOf(items[i]) = e
                           /\ \A j \in 1..(i - 1) : EnvironmentOf(items[j]) # e
        IN  (c.pc = "done" /\ Len(c.trace) = 2 /\ c.trace[2].outcome = "ok") =>
               /\ DOMAIN c.result = envs
               /\ \A e \in envs :
                     c.result[e] = [release |-> items[first(e)].ReleaseId,
                                    state |-> items[first(e)].State,
                                    created |-> items[first(e)].Created]

\* three deployments, the first and the third of one environment: the entry
\* of that environment is the first one
C29_Witness ==
    \E t \in Calls("get_status") :
        /\ tasks[t].pc = "done"
        /\ Len(tasks[t].server.deployments) = 3
        /\ tasks[t].server.deployments[1].EnvironmentId = "Environments-1"
        /\ tasks[t].server.deployments[2].EnvironmentId = "Environments-2"
        /\ tasks[t].server.deployments[3].EnvironmentId = "Environments-1"
        /\ DOMAIN tasks[t].result = {"Environments-1", "Environments-2"}
        /\ tasks[t].result["Environments-1"].release = <<"Releases", 1>>

\* -------------------------------------------- claims on the audit logger
\* C24: get_history(app, limit) returns min(limit, records of app) summaries,
\* all of records of that app, each reduced to {timestamp, user, action,
\* result-status}, the newest records only and strictly most recent first,
\* also when the records were written by concurrent log calls.
Queried == Len(tasks') = Len(tasks) + 1 /\ tasks'[Len(tasks')].kind = "history"

RowsOf(app) == {i \in 1..Len(audit) : audit[i].app = app}

Summarised(row) ==
    [timestamp |-> row.timestamp, user |-> row.user, action |-> row.action,
     result |-> IF "status" \in DOMAIN row.result THEN row.result.status ELSE "unknown"]

C24_CountAndContent(q) ==
    LET n == Cardinality(RowsOf(q.app))
    IN  /\ Len(q.result) = (IF q.limit < n THEN q.limit ELSE n)
        /\ \E f \in [1..Len(q.result) -> RowsOf(q.app)] :
              /\ \A i, j \in 1..Len(q.result) : i # j => f[i] # f[j]
              /\ \A i \in 1..Len(q.result) : q.result[i] = Summarised(audit[f[i]])

C24_MostRecentFirst(q) ==
    /\ \A i, j \in 1..Len(q.result) :
          i < j => q.result[i].timestamp > q.result[j].timestamp
    /\ \A r \in RowsOf(q.app) :
          (\A i \in 1..Len(q.result) : q.result[i].timestamp # audit[r].timestamp) =>
             \A i \in 1..Len(q.result) : q.result[i].timestamp > audit[r].timestamp

C24_HistoryStep ==
    Queried => /\ C24_CountAndContent(tasks'[Len(tasks')])
               /\ C24_MostRecentFirst(tasks'[Len(tasks')])

C24_HistoryNewestFirst == [][C24_HistoryStep]_vars

\* ------------------------------------------------- claims on the lifetime
\* C31: every approval that create inserted is eventually removed from the
\* registry, by a response or, failing that, by its expiry timer, provided
\* the event loop runs the timer task.
C31_EventuallyRemoved ==
    \A id \in 1..MaxApprovals :
        [](id \in DOMAIN pending => <>(id \notin DOMAIN pending))

\* an approval nobody responded to has been removed by its timer, which has
\* sent the expiry notice
C31_Witness ==
    \E id \in Ids :
        /\ id \notin DOMAIN pending
        /\ timers[id].approval.id = id
        /\ timers[id].pc = "done"
        /\ Len(timers[id].trace) = 1
        /\ \A t \in T : tasks[t].kind # "invoke"

\* C32: an approve response executes the gated action only while the
\* approval is unexpired: at or after its expires_at no approve response is
\* taken to the approved branch (`# Approved -- execute the deployment`) and
\* no resolver deploy or rollback call is made for it, even if the expiry
\* timer has not run yet.
Unexpired(id) == timers[id].pc = "sleeping"

Accepts(t) ==
    /\ Len(tasks') = Len(tasks) + 1
    /\ t = Len(tasks')
    /\ tasks'[t].approved
    /\ tasks'[t].approval # NoApproval

CallsResolver(t) ==
    /\ t <= Len(tasks)
    /\ \E i \in (Len(tasks[t].trace) + 1)..Len(tasks'[t].trace) :
          tasks'[t].trace[i].ev = "call"

C32_UnexpiredStep ==
    \A t \in 1..Len(tasks') :
        (Accepts(t) \/ CallsResolver(t)) => Unexpired(tasks'[t].approval.id)

Creator(id) == CHOOSE t \in T : tasks[t].created = id

Captured(t) ==
    [id |-> tasks[t].created,
     app |-> tasks[t].cmd.app,
     build_number |-> IF tasks[t].cmd.action = "rollback" THEN "previous"
                      ELSE tasks[t].cmd.build_number,
     environment |-> tasks[t].cmd.environment,
     requested_by |-> tasks[t].user,
     turn_context |-> t,
     is_rollback |-> (tasks[t].cmd.action = "rollback")]

ExecutedAsCaptured(t) ==
    \A i \in 1..Len(tasks[t].trace) :
        tasks[t].trace[i].ev = "call" =>
           LET a == tasks[t].approval
           IN  IF a.is_rollback
               THEN /\ tasks[t].trace[i].what = "rollback"
                    /\ tasks[t].trace[i].args = <<a.app, a.environment>>
               ELSE /\ tasks[t].trace[i].what = "deploy"
                    /\ tasks[t].trace[i].args = <<a.app, a.build_number, a.environment>>

C33_CapturedState ==
    \A id \in Ids :
        /\ \E t \in T : tasks[t].created = id
        /\ Captured(Creator(id)).app # None
        /\ id \in DOMAIN pending => pending[id] = Captured(Creator(id))
        /\ timers[id].approval \in {NoApproval, Captured(Creator(id))}
        /\ \A t \in T :
              (tasks[t].kind = "invoke" /\ tasks[t].approval.id = id) =>
                 /\ tasks[t].approval = Captured(Creator(id))
                 /\ ExecutedAsCaptured(t)

C33_RegistryStep ==
    /\ \A id \in DOMAIN pending \cap DOMAIN pending' : pending'[id] = pending[id]
    /\ pending' # pending =>
          \/ \E id \in DOMAIN pending' \ DOMAIN pending :
                /\ DOMAIN pending' = DOMAIN pending \cup {id}
                /\ Len(tasks') = Len(tasks) + 1
                /\ tasks'[Len(tasks')].kind = "message"
                /\ tasks'[Len(tasks')].created = id
          \/ \E id \in DOMAIN pending :
                /\ DOMAIN pending' = DOMAIN pending \ {id}
                /\ Len(tasks') = Len(tasks) + 1
                /\ tasks'[Len(tasks')].kind = "invoke"
                /\ tasks'[Len(tasks')].aid = id
                /\ tasks'[Len(tasks')].approval = pending[id]
                /\ timers' = timers
          \/ \E id \in DOMAIN pending :
                /\ DOMAIN pending' = DOMAIN pending \ {id}
                /\ tasks' = tasks
                /\ timers[id].pc = "sleeping"
                /\ timers'[id].approval = pending[id]
                /\ \A k \in DOMAIN timers \ {id} : timers'[k] = timers[k]

C33_CapturedFields == [] C33_CapturedState /\ [][C33_RegistryStep]_vars

\* a rollback request was created while a deploy request was pending; the
\* timer of the rollback took its entry, and the deploy entry is as created
C33_Witness ==
    /\ Len(tasks) = 2
    /\ tasks[1].created = 1 /\ tasks[1].cmd.action = "deploy"
    /\ tasks[2].created = 2 /\ tasks[2].cmd.action = "rollback"
    /\ 1 \in DOMAIN pending
    /\ pending[1].build_number = "42" /\ ~pending[1].is_rollback
    /\ 2 \notin DOMAIN pending
    /\ timers[2].approval.is_rollback
    /\ timers[2].approval.build_number = "previous"
    /\ timers[2].approval.environment = tasks[2].cmd.environment

\* -------------------------------------------------- claims on the fields
\* C34: the argument fields of a command parsed without error (app, branch,
\* build_number, environment) are exactly the corresponding
\* whitespace-separated tokens of its raw field, as the operator typed them;
\* only the action token is case-folded.
Typed(t) == Split(tasks[t].cmd.raw, "")

C34_ArgumentsAsTyped ==
    \A t \in T :
        LET cmd == tasks[t].cmd
        IN  (Parsed(t) /\ cmd.error = NoError /\ cmd.action # "help") =>
               /\ cmd.action = Lower(Typed(t)[1])
               /\ cmd.app = Typed(t)[2]
               /\ cmd.action = "build" => cmd.branch = Typed(t)[3]
               /\ cmd.action = "deploy" =>
                     /\ cmd.build_number = Typed(t)[3]
                     /\ cmd.environment = Typed(t)[4]
               /\ cmd.action = "rollback" => cmd.environment = Typed(t)[3]

====
